---- MODULE Spec2Model ----
(***************************************************************************)
(* Model of main.py: the batch converter that relocates every image of a   *)
(* directory tree into a working directory, checks it for corruption,      *)
(* restores its true extension, normalises it to PNG when the encoder does *)
(* not read its format, encodes it as JPEG XL and moves the result back.   *)
(*                                                                         *)
(* A path is a record [dir, name]; a name is the sequence of its           *)
(* dot-separated components, so "a.jpg.JPEG" is <<"a", "jpg", "JPEG">>.     *)
(* The disk is a function from the existing paths to the files' contents.  *)
(* Every external tool call (magick, cjxl, exiftool) is an input of the    *)
(* step that issues it: its exit status and whether it wrote its output.   *)
(***************************************************************************)
EXTENDS Integers, Sequences, FiniteSets, TLC

VARIABLES
    pc,                  \* position of the script: main / the loop body of convert_images
    argv,                \* the command line: "noarg", "badpath" or "ok"
    disk,                \* the file system: path -> file
    found,               \* discovery order of os.walk under the root
    exts,                \* main: image_extensions, the allow-list of the classifier
    files,               \* image_files, the work list of convert_images
    idx,                 \* index of the loop variable `file` in files
    current_file,        \* convert_images: current_file
    original_path,       \* convert_images: original_path
    old_size,            \* convert_images: old_size
    new_size,            \* convert_images: new_size
    current_space_gains, \* convert_images: current_space_gains
    current_progress,    \* convert_images: current_progress
    exit_code,           \* exit status of the process, "running" until it ends
    summary,             \* TRUE once the end status report (lines 651-654) was written
    state,               \* per job: the stage of the pipeline it reached
    log,                 \* per job: the calls it issued so far, in order
    previous             \* what an earlier run of the script over the same root left

vars == <<pc, argv, disk, found, exts, files, idx, current_file, original_path, old_size,
          new_size, current_space_gains, current_progress, exit_code, summary, state, log,
          previous>>

(***************************************************************************)
(* Bounds of the model.                                                    *)
(***************************************************************************)
MaxFiles == 2

\* longest list handed to find_specific_types or prioritize_list on its own
MaxLen == 3

\* longest allow-list handed to find_specific_types on its own
MaxExts == 2

(***************************************************************************)
(* Strings.                                                                *)
(***************************************************************************)
\* str.upper() on the name components that occur
Upper(t) ==
    CASE t = "jpg"  -> "JPG"
      [] t = "Jpg"  -> "JPG"
      [] t = "jpeg" -> "JPEG"
      [] t = "png"  -> "PNG"
      [] t = "gif"  -> "GIF"
      [] t = "apng" -> "APNG"
      [] t = "tiff" -> "TIFF"
      [] t = "tif"  -> "TIF"
      [] t = "heic" -> "HEIC"
      [] t = "jp2"  -> "JP2"
      [] t = "webp" -> "WEBP"
      [] t = "exr"  -> "EXR"
      [] t = "pam"  -> "PAM"
      [] t = "pgm"  -> "PGM"
      [] t = "ppm"  -> "PPM"
      [] t = "pfm"  -> "PFM"
      [] t = "pgx"  -> "PGX"
      [] t = "jxl"  -> "JXL"
      [] t = "bmp"  -> "BMP"
      [] t = "bak"  -> "BAK"
      [] t = "a"    -> "A"
      [] t = "b"    -> "B"
      [] t = "c"    -> "C"
      [] OTHER      -> t

\* os.path.splitext(p)[1] without its dot: the last component of a name that has one
splitext_ext(name) == IF Len(name) >= 2 THEN name[Len(name)] ELSE ""

\* p + "." + ext
add_ext(p, ext) == [dir |-> p.dir, name |-> Append(p.name, ext)]

Path(d, n) == [dir |-> d, name |-> n]

\* os.path.join(directory, os.path.basename(p))
join_basename(d, p) == [dir |-> d, name |-> p.name]

\* os.path.normpath(os.path.join(os.path.splitdrive(file)[0], "/JPEG XL Converter"))
temporary_path == "/JPEG XL Converter"

(***************************************************************************)
(* The file system.                                                        *)
(***************************************************************************)
\* os.path.exists
exists(d, p) == p \in DOMAIN d

fs_remove(d, p) == [q \in (DOMAIN d) \ {p} |-> d[q]]

fs_write(d, p, f) == [q \in (DOMAIN d) \cup {p} |-> IF q = p THEN f ELSE d[q]]

\* shutil.move of an existing file: the destination is replaced
fs_move(d, src, dst) == fs_write(fs_remove(d, src), dst, d[src])

(***************************************************************************)
(* Files.  origin is the discovered path a file's pixels come from, meta   *)
(* the discovered path whose metadata tags it carries, title its Title tag *)
(* as written by the script (<<>>: not written by the script).             *)
(***************************************************************************)
NoPath == [dir |-> "", name |-> <<>>]

File(sz, o, m, t) == [size |-> sz, origin |-> o, meta |-> m, title |-> t]

\* the files a root may hold when the script starts, with their sizes in bytes
Candidates ==
    { [path |-> Path("d1", <<"a", "jpg">>),        size |-> 500000],
      [path |-> Path("d2", <<"a", "jpg">>),        size |-> 50000],
      [path |-> Path("d1", <<"b", "PNG">>),        size |-> 1000001],
      [path |-> Path("d1", <<"a", "jpg", "bak">>), size |-> 70000],
      [path |-> Path("d1", <<"e", "Jpg">>),        size |-> 80000] }

CandidatePaths == { c.path : c \in Candidates }

CandidateSize(p) == (CHOOSE c \in Candidates : c.path = p).size

\* exit statuses of an external tool
ExitCodes == {0, 1, 2}

\* format tags the true-format probe (magick identify -format %m) reports
FormatTags == {"JPEG", "PNG", "BMP"}

\* sizes in bytes of a file the encoder wrote
EncodedSizes == {40000, 600000}

(***************************************************************************)
(* subprocess.run(command, capture_output=True, check=True): a non-zero    *)
(* exit status raises CalledProcessError instead of being returned.        *)
(***************************************************************************)
run_unchecked(rc) == [raised |-> FALSE, returncode |-> rc]

subprocess_run(rc) ==
    IF rc # 0 THEN [raised |-> TRUE, returncode |-> rc]
    ELSE [raised |-> FALSE, returncode |-> rc]

(***************************************************************************)
(* Predicate functions.                                                    *)
(***************************************************************************)
\* is_corrupt: "exit" when check_path ends the process, "raise" when the call
\* raises, else the returned boolean
is_corrupt(d, input, rc) ==
    IF ~exists(d, input) THEN "exit"
    ELSE LET r == subprocess_run(rc) IN
         IF r.raised THEN "raise"
         ELSE IF r.returncode = 1 THEN "True" ELSE "False"

supported_types ==
    <<"exr", "gif", "jpg", "jpeg", "pam", "pgm", "ppm", "pfm", "pgx", "png", "apng", "jxl">>

\* the comparison without .upper()
is_supported_case_sensitive(input) ==
    \E i \in 1..Len(supported_types) : splitext_ext(input.name) = supported_types[i]

is_supported_by_jpegxl(input) ==
    LET input_type == splitext_ext(input.name) IN
    \E i \in 1..Len(supported_types) : Upper(input_type) = Upper(supported_types[i])

(***************************************************************************)
(* find_specific_types and prioritize_list.                                *)
(***************************************************************************)
\* the allow-list with the encoder's own output type added to it
image_extensions_with_jxl ==
    <<"jpg", "jpeg", "png", "gif", "apng", "tiff", "tif", "heic", "JP2", "webp",
      "exr", "pam", "pgm", "ppm", "pfm", "pgx", "jxl">>

image_extensions ==
    <<"jpg", "jpeg", "png", "gif", "apng", "tiff", "tif", "heic", "JP2", "webp",
      "exr", "pam", "pgm", "ppm", "pfm", "pgx">>

\* the inner loop: one append for every entry of extensions the file's extension
\* equals, as written or upper-cased
RECURSIVE matches_of(_, _, _)
matches_of(file, extensions, i) ==
    IF i > Len(extensions) THEN <<>>
    ELSE LET required_extension == extensions[i]
             current_file_extension == splitext_ext(file.name)
             hit == \/ required_extension = current_file_extension
                    \/ Upper(required_extension) = current_file_extension
         IN (IF hit THEN <<file>> ELSE <<>>) \o matches_of(file, extensions, i + 1)

RECURSIVE find_specific_types(_, _)
find_specific_types(fs, extensions) ==
    IF fs = <<>> THEN <<>>
    ELSE matches_of(Head(fs), extensions, 1) \o find_specific_types(Tail(fs), extensions)

comparison_size == 1000000

\* get_size of a path that exists
get_size(d, p) == d[p].size

\* the loop without its `continue` statements: every file also reaches the fallback
prioritize_without_continue(d, fs) ==
    LET is_small(f) == get_size(d, f) <= comparison_size
        is_jpeg(f)  == Upper(splitext_ext(f.name)) = "JPEG" \/ Upper(splitext_ext(f.name)) = "JPG"
    IN SelectSeq(fs, LAMBDA f : is_jpeg(f) /\ is_small(f))
       \o SelectSeq(fs, LAMBDA f : is_jpeg(f) /\ ~is_small(f))
       \o SelectSeq(fs, LAMBDA f : ~is_jpeg(f) /\ is_small(f))
       \o fs

\* is_small = current_size < comparison_size
prioritize_strict_threshold(d, fs) ==
    LET is_small(f) == get_size(d, f) < comparison_size
        is_jpeg(f)  == Upper(splitext_ext(f.name)) = "JPEG" \/ Upper(splitext_ext(f.name)) = "JPG"
    IN SelectSeq(fs, LAMBDA f : is_jpeg(f) /\ is_small(f))
       \o SelectSeq(fs, LAMBDA f : is_jpeg(f) /\ ~is_small(f))
       \o SelectSeq(fs, LAMBDA f : ~is_jpeg(f) /\ is_small(f))
       \o SelectSeq(fs, LAMBDA f : ~is_jpeg(f) /\ ~is_small(f))

\* prioritized_list = big_jpegs + small_jpegs + big_images + small_images
prioritize_big_first(d, fs) ==
    LET is_small(f) == get_size(d, f) <= comparison_size
        is_jpeg(f)  == Upper(splitext_ext(f.name)) = "JPEG" \/ Upper(splitext_ext(f.name)) = "JPG"
    IN SelectSeq(fs, LAMBDA f : is_jpeg(f) /\ ~is_small(f))
       \o SelectSeq(fs, LAMBDA f : is_jpeg(f) /\ is_small(f))
       \o SelectSeq(fs, LAMBDA f : ~is_jpeg(f) /\ ~is_small(f))
       \o SelectSeq(fs, LAMBDA f : ~is_jpeg(f) /\ is_small(f))

prioritize_list(d, fs) ==
    LET is_small(f) == get_size(d, f) <= comparison_size
        is_jpeg(f)  == Upper(splitext_ext(f.name)) = "JPEG" \/ Upper(splitext_ext(f.name)) = "JPG"
        small_jpegs  == SelectSeq(fs, LAMBDA f : is_jpeg(f) /\ is_small(f))
        big_jpegs    == SelectSeq(fs, LAMBDA f : is_jpeg(f) /\ ~is_small(f))
        small_images == SelectSeq(fs, LAMBDA f : ~is_jpeg(f) /\ is_small(f))
        big_images   == SelectSeq(fs, LAMBDA f : ~is_jpeg(f) /\ ~is_small(f))
    IN small_jpegs \o big_jpegs \o small_images \o big_images

(***************************************************************************)
(* Initial states: the command line and the files under the root.          *)
(***************************************************************************)
\* no earlier run: nothing finalized, nothing left unfinished
NoRun == [finalized |-> {}, unfinished |-> {}]

FoundLists ==
    UNION { { s \in [1..n -> CandidatePaths] : \A i, j \in 1..n : i # j => s[i] # s[j] }
            : n \in 0..MaxFiles }

Init ==
    /\ pc = "start"
    /\ argv \in {"noarg", "badpath", "ok"}
    /\ found \in FoundLists
    /\ argv # "ok" => found = <<>>
    /\ disk = [p \in { found[i] : i \in 1..Len(found) } |->
                  File(CandidateSize(p), p, p, <<>>)]
    /\ files = <<>>
    /\ idx = 1
    /\ current_file = NoPath
    /\ original_path = ""
    /\ old_size = 0
    /\ new_size = 0
    /\ current_space_gains = 0
    /\ current_progress = 1
    /\ exit_code = "running"
    /\ summary = FALSE
    /\ state = <<>>
    /\ log = <<>>
    /\ exts = image_extensions
    /\ previous = NoRun

\* one entry of a job's log: the operation, the path it was given, the exit status
\* of the tool and what the tool answered (the probe's tag, "written" when a
\* converter wrote its output file, the size in bytes a size query returned)
Call(op, arg, rc, out) == [op |-> op, arg |-> arg, rc |-> rc, out |-> out]

\* log with the calls cs appended to job j's entries
Logged(j, cs) == [log EXCEPT ![j] = @ \o cs]

Written(produced) == IF produced THEN "written" ELSE "nothing"

\* the loop body wrapped in try/except with continue: the error is swallowed and
\* the loop goes on with the next file
continue_loop ==
    /\ pc' = "relocate"
    /\ idx' = idx + 1
    /\ UNCHANGED exit_code

\* sys.exit() without a status
halt_with_status_zero ==
    /\ pc' = "aborted"
    /\ exit_code' = 0
    /\ UNCHANGED idx

\* an uncaught exception or sys.exit(1) ends the process with status 1: the loop of
\* convert_images does not go on
Halt ==
    /\ pc' = "aborted"
    /\ exit_code' = 1
    /\ UNCHANGED idx

(***************************************************************************)
(* main, lines 619-638: get_path, find_files, find_specific_types,         *)
(* prioritize_list and the first status report.                            *)
(***************************************************************************)
Start ==
    /\ pc = "start"
    /\ IF argv # "ok"
       THEN /\ Halt
            /\ UNCHANGED <<files, state, log>>
       ELSE /\ files' = prioritize_list(disk, find_specific_types(found, exts))
            /\ state' = [j \in 1..Len(files') |-> "Discovered"]
            /\ log' = [j \in 1..Len(files') |-> <<>>]
            /\ pc' = "relocate"
            /\ UNCHANGED <<exit_code, idx>>
    /\ UNCHANGED <<argv, exts, previous, disk, found, current_file, original_path, old_size, new_size,
                   current_space_gains, current_progress, summary>>

(***************************************************************************)
(* convert_images, lines 531-547: relocate the next file and measure it.   *)
(***************************************************************************)
Relocate ==
    /\ pc = "relocate"
    /\ idx <= Len(files)
    /\ LET file == files[idx]
           target == join_basename(temporary_path, file)
       IN IF ~exists(disk, file)
          THEN /\ Halt
               /\ UNCHANGED <<disk, current_file, original_path, old_size, state, log>>
          ELSE /\ original_path' = file.dir
               /\ current_file' = target
               /\ disk' = fs_move(disk, file, target)
               /\ old_size' = get_size(disk', target)
               /\ state' = [state EXCEPT ![idx] = "Relocated"]
               /\ log' = Logged(idx, <<Call("relocate", file, 0, disk'[target].size)>>)
               /\ pc' = "inspect"
               /\ UNCHANGED <<exit_code, idx>>
    /\ UNCHANGED <<argv, exts, previous, found, files, new_size, current_space_gains,
                   current_progress, summary>>

(***************************************************************************)
(* External tools.  A tool that is given an existing input may write its   *)
(* output file, whatever its exit status is.                               *)
(***************************************************************************)
tool_writes(d, input, output, produced, f) ==
    IF produced /\ exists(d, input) THEN fs_write(d, output, f) ELSE d

\* delete_file: os.remove, an OSError is reported and swallowed
delete_file(d, file, del_ok) ==
    IF del_ok /\ exists(d, file) THEN fs_remove(d, file) ELSE d

\* input + os.path.splitext(input)[1]
recover_output(input) ==
    IF Len(input.name) >= 2 THEN add_ext(input, splitext_ext(input.name)) ELSE input

\* recover_image: the disk it leaves, whether it raised, and the path it returns
recover_image(d, input, rc, produced, del_ok) ==
    LET output == recover_output(input)
        d1 == tool_writes(d, input, output, produced,
                          File(d[input].size, d[input].origin, d[input].meta, d[input].title))
        r  == subprocess_run(rc)
    IN IF r.raised \/ r.returncode = 1
       THEN [disk |-> d1, raised |-> TRUE, path |-> input]
       ELSE [disk |-> IF exists(d1, output) THEN delete_file(d1, input, del_ok) ELSE d1,
             raised |-> FALSE, path |-> output]

(***************************************************************************)
(* convert_images, lines 549-562: the corruption check and the recovery.   *)
(***************************************************************************)
CorruptionCheck ==
    /\ pc = "inspect"
    /\ \E rc \in ExitCodes, rrc \in ExitCodes, produced \in BOOLEAN, del_ok \in BOOLEAN :
         LET c   == is_corrupt(disk, current_file, rc)
             ins == Call("inspect", current_file, rc, "")
             rec == recover_image(disk, current_file, rrc, produced, del_ok)
         IN \* a call that is not issued has no outcome to draw
            /\ c # "True" => (rrc = 0 /\ produced /\ del_ok)
            /\ CASE c \in {"exit", "raise"} ->
                      /\ Halt
                      /\ log' = Logged(idx, <<ins>>)
                      /\ UNCHANGED <<disk, current_file, state>>
                 [] c = "False" ->
                      /\ pc' = "restore"
                      /\ state' = [state EXCEPT ![idx] = "CorruptionChecked"]
                      /\ log' = Logged(idx, <<ins>>)
                      /\ UNCHANGED <<disk, current_file, idx, exit_code>>
                 [] c = "True" ->
                      /\ log' = Logged(idx, <<ins, Call("recover", current_file, rrc,
                                                       Written(produced /\ exists(disk, current_file)))>>)
                      /\ disk' = rec.disk
                      /\ IF rec.raised
                         THEN /\ state' = [state EXCEPT ![idx] = "Skipped"]
                              /\ idx' = idx + 1
                              /\ pc' = "relocate"
                              /\ UNCHANGED current_file
                         ELSE /\ state' = [state EXCEPT ![idx] = "Recovered"]
                              /\ current_file' = rec.path
                              /\ pc' = "restore"
                              /\ UNCHANGED idx
                      /\ UNCHANGED exit_code
    /\ UNCHANGED <<argv, exts, previous, found, files, original_path, old_size, new_size,
                   current_space_gains, current_progress, summary>>

(***************************************************************************)
(* restore_filetype, called at line 565.                                   *)
(***************************************************************************)
\* what `magick identify -format '%m\n'` prints for a tag: the quotes are literal
probe_stdout(tag) == <<"'", tag, "\n", "'">>

\* the first line as it is, its leading quote kept
actual_extension_unsliced(stdout) == IF stdout = <<>> THEN "" ELSE stdout[1]

\* stdout.split("\n")[0][1:]
actual_extension(stdout) ==
    LET nl    == { i \in 1..Len(stdout) : stdout[i] = "\n" }
        first == IF nl = {} THEN stdout
                 ELSE SubSeq(stdout, 1, (CHOOSE i \in nl : \A k \in nl : i <= k) - 1)
        rest  == IF first = <<>> THEN <<>> ELSE Tail(first)
    IN IF rest = <<>> THEN "" ELSE rest[1]

\* a restore that replaces the extension instead of appending to it
restore_replace_ext(input, ext) ==
    [dir |-> input.dir, name |-> Append(SubSeq(input.name, 1, Len(input.name) - 1), ext)]

\* new_path = input + "." + actual_extension
restore_new_path(input, ext) == add_ext(input, ext)

RestoreFiletype ==
    /\ pc = "restore"
    /\ \E rc \in ExitCodes, tag \in FormatTags, replaces \in BOOLEAN :
         LET r        == subprocess_run(rc)
             new_path == restore_new_path(current_file, actual_extension(probe_stdout(tag)))
             call     == Call("probe", current_file, rc, tag)
         IN \* the platform's answer to a rename onto an existing file is drawn only
            \* when the target exists
            /\ exists(disk, new_path) \/ replaces
            /\ IF \/ r.raised
                  \/ ~exists(disk, current_file)
                  \/ (exists(disk, new_path) /\ ~replaces)
               THEN /\ Halt
                    /\ log' = Logged(idx, <<call>>)
                    /\ UNCHANGED <<disk, current_file, state>>
               ELSE /\ disk' = fs_move(disk, current_file, new_path)
                    /\ current_file' = new_path
                    /\ state' = [state EXCEPT ![idx] = "ExtensionRestored"]
                    /\ log' = Logged(idx, <<call, Call("rename", new_path, 0, "")>>)
                    /\ pc' = "format"
                    /\ UNCHANGED <<exit_code, idx>>
    /\ UNCHANGED <<argv, exts, previous, found, files, original_path, old_size, new_size,
                   current_space_gains, current_progress, summary>>

(***************************************************************************)
(* convert_images, lines 567-570: is_supported_by_jpegxl and convert_to_png*)
(***************************************************************************)
\* convert_to_png: the disk it leaves, whether it raised, and the path it returns
convert_to_png(d, input, rc, produced, del_ok) ==
    LET output == add_ext(input, "PNG")
        d1 == tool_writes(d, input, output, produced,
                          File(d[input].size, d[input].origin, d[input].meta, d[input].title))
        r  == subprocess_run(rc)
    IN IF r.raised
       THEN [disk |-> d1, raised |-> TRUE, path |-> input]
       ELSE [disk |-> IF exists(d1, output) THEN delete_file(d1, input, del_ok) ELSE d1,
             raised |-> FALSE, path |-> output]

FormatCheck ==
    /\ pc = "format"
    /\ IF is_supported_by_jpegxl(current_file)
       THEN /\ pc' = "encode"
            /\ UNCHANGED <<disk, current_file, state, log, exit_code, idx>>
       ELSE \E rc \in ExitCodes, produced \in BOOLEAN, del_ok \in BOOLEAN :
              LET res == convert_to_png(disk, current_file, rc, produced, del_ok) IN
              /\ rc # 0 => del_ok
              /\ disk' = res.disk
              /\ log' = Logged(idx, <<Call("normalize", current_file, rc,
                                         Written(produced /\ exists(disk, current_file)))>>)
              /\ IF res.raised
                 THEN /\ Halt
                      /\ UNCHANGED <<current_file, state>>
                 ELSE /\ current_file' = res.path
                      /\ state' = [state EXCEPT ![idx] = "FormatNormalized"]
                      /\ pc' = "encode"
                      /\ UNCHANGED <<exit_code, idx>>
    /\ UNCHANGED <<argv, exts, previous, found, files, original_path, old_size, new_size,
                   current_space_gains, current_progress, summary>>

(***************************************************************************)
(* convert_to_jpegxl with transfer_metadata and add_exif_title, called at  *)
(* line 573.                                                               *)
(***************************************************************************)
\* transfer_metadata: exiftool copies every tag (the Title too) from input to output
transfer_metadata(d, input, output, rc) ==
    LET r == subprocess_run(rc) IN
    [raised |-> r.raised,
     disk   |-> IF r.returncode = 0 /\ exists(d, input) /\ exists(d, output)
                THEN [d EXCEPT ![output].meta = d[input].meta, ![output].title = d[input].title]
                ELSE d]

\* add_exif_title: exiftool sets the Title tag to os.path.basename(input)
add_exif_title(d, input, rc) ==
    LET r == subprocess_run(rc) IN
    [raised |-> r.raised,
     disk   |-> IF r.returncode = 0 /\ exists(d, input)
                THEN [d EXCEPT ![input].title = input.name]
                ELSE d]

\* the follow-ups in another order: the old input is deleted first, then the title
\* is stamped, then the metadata is copied
convert_to_jpegxl_delete_first(d, input, rc, produced, sz, mrc, trc, del_ok) ==
    LET output == add_ext(input, "jxl")
        d1  == tool_writes(d, input, output, produced, File(sz, d[input].origin, NoPath, <<>>))
        r   == subprocess_run(rc)
        enc == Call("encode", input, rc, Written(produced /\ exists(d, input)))
        d2  == delete_file(d1, input, del_ok)
        dlc == Call("delete_file", input, IF del_ok THEN 0 ELSE 1, "")
        ti  == add_exif_title(d2, output, trc)
        tic == Call("add_exif_title", output, trc, "")
        tm  == transfer_metadata(ti.disk, input, output, mrc)
        tmc == Call("transfer_metadata", input, mrc, "")
    IN IF r.raised
       THEN [disk |-> d1, raised |-> TRUE, path |-> input, calls |-> <<enc>>]
       ELSE IF ~exists(d1, output)
       THEN [disk |-> d1, raised |-> FALSE, path |-> output, calls |-> <<enc>>]
       ELSE IF ti.raised
       THEN [disk |-> ti.disk, raised |-> TRUE, path |-> input, calls |-> <<enc, dlc, tic>>]
       ELSE IF tm.raised
       THEN [disk |-> tm.disk, raised |-> TRUE, path |-> input, calls |-> <<enc, dlc, tic, tmc>>]
       ELSE [disk |-> tm.disk, raised |-> FALSE, path |-> output,
             calls |-> <<enc, dlc, tic, tmc>>]

\* convert_to_jpegxl: the disk it leaves, whether it raised, the path it returns and
\* the calls it issued
convert_to_jpegxl(d, input, rc, produced, sz, mrc, trc, del_ok) ==
    LET output == add_ext(input, "jxl")
        d1  == tool_writes(d, input, output, produced, File(sz, d[input].origin, NoPath, <<>>))
        r   == subprocess_run(rc)
        enc == Call("encode", input, rc, Written(produced /\ exists(d, input)))
        tm  == transfer_metadata(d1, input, output, mrc)
        tmc == Call("transfer_metadata", input, mrc, "")
        ti  == add_exif_title(tm.disk, output, trc)
        tic == Call("add_exif_title", output, trc, "")
    IN IF r.raised
       THEN [disk |-> d1, raised |-> TRUE, path |-> input, calls |-> <<enc>>]
       ELSE IF ~exists(d1, output)
       THEN [disk |-> d1, raised |-> FALSE, path |-> output, calls |-> <<enc>>]
       ELSE IF tm.raised
       THEN [disk |-> tm.disk, raised |-> TRUE, path |-> input, calls |-> <<enc, tmc>>]
       ELSE IF ti.raised
       THEN [disk |-> ti.disk, raised |-> TRUE, path |-> input, calls |-> <<enc, tmc, tic>>]
       ELSE [disk |-> delete_file(ti.disk, input, del_ok), raised |-> FALSE, path |-> output,
             calls |-> <<enc, tmc, tic, Call("delete_file", input, IF del_ok THEN 0 ELSE 1, "")>>]

Encode ==
    /\ pc = "encode"
    /\ \E rc \in ExitCodes, produced \in BOOLEAN, sz \in EncodedSizes,
          mrc \in ExitCodes, trc \in ExitCodes, del_ok \in BOOLEAN :
         LET res == convert_to_jpegxl(disk, current_file, rc, produced, sz, mrc, trc, del_ok)
         IN \* a call that is not issued has no outcome to draw
            /\ Len(res.calls) < 2 => (mrc = 0 /\ trc = 0 /\ del_ok)
            /\ mrc # 0 => (trc = 0 /\ del_ok)
            /\ trc # 0 => del_ok
            /\ produced \/ \A other \in EncodedSizes : sz <= other
            /\ disk' = res.disk
            /\ log' = Logged(idx, res.calls)
            /\ IF res.raised
               THEN /\ Halt
                    /\ UNCHANGED <<current_file, state>>
               ELSE /\ current_file' = res.path
                    /\ state' = [state EXCEPT ![idx] = "Encoded"]
                    /\ pc' = "finalize"
                    /\ UNCHANGED <<exit_code, idx>>
    /\ UNCHANGED <<argv, exts, previous, found, files, original_path, old_size, new_size,
                   current_space_gains, current_progress, summary>>

(***************************************************************************)
(* convert_images, lines 575-593: measure, record the delta, move back.    *)
(***************************************************************************)
\* the delta taken the wrong way round
record_reversed(total, before, after) == total + (after - before)

\* current_space_gains += old_size - new_size
record(total, before, after) == total + (before - after)

Finalize ==
    /\ pc = "finalize"
    /\ IF ~exists(disk, current_file)
       THEN /\ Halt
            /\ UNCHANGED <<disk, new_size, current_space_gains, current_progress,
                           state, log>>
       ELSE LET back == join_basename(original_path, current_file) IN
            /\ new_size' = get_size(disk, current_file)
            /\ current_space_gains' = record(current_space_gains, old_size, new_size')
            /\ disk' = fs_move(disk, current_file, back)
            /\ log' = Logged(idx, <<Call("move_back", back, 0, disk[current_file].size)>>)
            /\ state' = [state EXCEPT ![idx] = "Finalized"]
            /\ current_progress' = current_progress + 1
            /\ idx' = idx + 1
            /\ pc' = "relocate"
            /\ UNCHANGED exit_code
    /\ UNCHANGED <<argv, exts, previous, found, files, current_file, original_path, old_size, summary>>

(***************************************************************************)
(* main, lines 643-655: the end status report after convert_images returns.*)
(***************************************************************************)
Report ==
    /\ pc = "relocate"
    /\ idx > Len(files)
    /\ summary' = TRUE
    /\ exit_code' = 0
    /\ pc' = "done"
    /\ UNCHANGED <<argv, exts, previous, disk, found, files, idx, current_file, original_path, old_size,
                   new_size, current_space_gains, current_progress, state, log>>

Next ==
    \/ Start
    \/ Relocate
    \/ CorruptionCheck
    \/ RestoreFiletype
    \/ FormatCheck
    \/ Encode
    \/ Finalize
    \/ Report

Spec == Init /\ [][Next]_vars

\* the script runs on until it ends: every step that can be taken is taken
FairSpec == Spec /\ WF_vars(Next)

(***************************************************************************)
(* find_specific_types and prioritize_list on their own: a call with an    *)
(* argument list held in found (and exts), the returned list in files.     *)
(***************************************************************************)
\* convert_images was not entered: its variables hold their initial values
LoopAtRest ==
    /\ idx = 1
    /\ current_file = NoPath
    /\ original_path = ""
    /\ old_size = 0
    /\ new_size = 0
    /\ current_space_gains = 0
    /\ current_progress = 1
    /\ exit_code = "running"
    /\ summary = FALSE
    /\ state = <<>>
    /\ log = <<>>
    /\ previous = NoRun

ListsOver(S) == UNION { [1..n -> S] : n \in 0..MaxLen }

PathsOf(fs) == { fs[i] : i \in 1..Len(fs) }

\* paths handed to prioritize_list and the sizes in bytes their files may have
PrioPaths ==
    { Path("d1", <<"a", "jpg">>), Path("d1", <<"b", "JPEG">>), Path("d1", <<"e", "Jpg">>),
      Path("d1", <<"c", "png">>), Path("d1", <<"b", "PNG">>) }

PrioSizes == {50000, 500000, 1000000, 1000001}

PrioInit ==
    /\ pc = "call"
    /\ argv = "ok"
    /\ exts = image_extensions
    /\ found \in ListsOver(PrioPaths)
    /\ \E sz \in [PathsOf(found) -> PrioSizes] :
         disk = [p \in PathsOf(found) |-> File(sz[p], p, p, <<>>)]
    /\ files = <<>>
    /\ LoopAtRest

\* image_files = prioritize_list(image_files, stdscr)
Prioritize ==
    /\ pc = "call"
    /\ files' = prioritize_list(disk, found)
    /\ pc' = "returned"
    /\ UNCHANGED <<argv, exts, previous, disk, found, idx, current_file, original_path,
                   old_size, new_size, current_space_gains, current_progress, exit_code,
                   summary, state, log>>

PrioritizerSpec == PrioInit /\ [][Prioritize]_vars

\* paths and allow-list entries handed to find_specific_types
ClassPaths ==
    { Path("d1", <<"a", "jpg">>), Path("d1", <<"b", "JPG">>), Path("d1", <<"e", "Jpg">>),
      Path("d1", <<"c", "jp2">>), Path("d1", <<"c", "JP2">>) }

ClassExts == {"jpg", "JPG", "JP2", "png"}

AllowLists == UNION { [1..n -> ClassExts] : n \in 0..MaxExts }

ClassInit ==
    /\ pc = "call"
    /\ argv = "ok"
    /\ exts \in AllowLists
    /\ found \in ListsOver(ClassPaths)
    /\ disk = [p \in PathsOf(found) |-> File(50000, p, p, <<>>)]
    /\ files = <<>>
    /\ LoopAtRest

\* image_files = find_specific_types(files, image_extensions)
Classify ==
    /\ pc = "call"
    /\ files' = find_specific_types(found, exts)
    /\ pc' = "returned"
    /\ UNCHANGED <<argv, exts, previous, disk, found, idx, current_file, original_path,
                   old_size, new_size, current_space_gains, current_progress, exit_code,
                   summary, state, log>>

ClassifierSpec == ClassInit /\ [][Classify]_vars

(***************************************************************************)
(* Vocabulary of the properties.                                           *)
(***************************************************************************)
Jobs == DOMAIN state

Terminal(j) == state[j] \in {"Finalized", "Skipped"}

\* the positions of job j's log at which it issued operation op
CallsOf(j, op) == { i \in DOMAIN log[j] : log[j][i].op = op }

Called(j, op) == \E i \in DOMAIN log[j] : log[j][i].op = op

\* the run halted while job j was being processed
HaltedIn(j) == pc = "aborted" /\ idx = j /\ ~Terminal(j)

\* where job j's file sits in the working directory right after relocation
WorkingPath(j) == join_basename(temporary_path, files[j])

(***************************************************************************)
(* C1: for every file of the work list, if the inspection tool reports the *)
(* file corrupt (exit status 1) then recovery is attempted, and if the     *)
(* recovery call fails the job ends Skipped: the file stays at its         *)
(* relocated working path, it is never measured and moved back (so no      *)
(* delta of it enters the savings total), and the run goes on with the     *)
(* next file instead of halting.                                           *)
(***************************************************************************)
C1_CorruptUnrecoverableIsSkipped ==
    \A j \in Jobs :
        (\E i \in CallsOf(j, "inspect") : log[j][i].rc = 1) =>
            /\ ~HaltedIn(j)
            /\ Called(j, "recover")
            /\ (\E i \in CallsOf(j, "recover") : log[j][i].rc # 0) =>
                   /\ state[j] = "Skipped"
                   /\ exists(disk, WorkingPath(j))
                   /\ ~Called(j, "move_back")

(***************************************************************************)
(* C2: is_corrupt returns True whenever the inspection tool exits with     *)
(* status 1, and that exit status never raises or ends the run.            *)
(***************************************************************************)
C2_ExitOneMeansCorrupt ==
    /\ pc = "inspect" => is_corrupt(disk, current_file, 1) = "True"
    /\ \A j \in Jobs : \A i \in CallsOf(j, "inspect") :
           log[j][i].rc = 1 => ~(HaltedIn(j) /\ i = Len(log[j]))

(***************************************************************************)
(* C3: a failing metadata copy or title stamp after a successful encode    *)
(* does not stop the job: it still deletes its input and reaches Encoded   *)
(* and then Finalized.                                                     *)
(***************************************************************************)
C3_MetadataFailureNotFatal ==
    \A j \in Jobs : \A i \in DOMAIN log[j] :
        (log[j][i].op \in {"transfer_metadata", "add_exif_title"} /\ log[j][i].rc # 0) =>
            /\ state[j] \in {"Encoded", "Finalized"}
            /\ Called(j, "delete_file")

(***************************************************************************)
(* C4: the existence of the output file is the only success signal of the  *)
(* encode: when the encoder exits non-zero but has written its output, the *)
(* job goes on (metadata transfer, deletion, finalize) and the run is not  *)
(* halted.                                                                 *)
(***************************************************************************)
C4_EncoderExitNotFatal ==
    \A j \in Jobs : \A i \in CallsOf(j, "encode") :
        (log[j][i].rc # 0 /\ log[j][i].out = "written") =>
            /\ ~HaltedIn(j)
            /\ Called(j, "transfer_metadata")

(***************************************************************************)
(* C5: a raised failure of the inspect, normalize or encode call (outside  *)
(* the recovery try-block) while the k-th file is processed halts the      *)
(* whole run: it is the last call ever issued, no later file is relocated  *)
(* or converted, and the final summary is not reported.  The summary is    *)
(* reported only when every job is Finalized or Skipped, and once every    *)
(* job of a run is Finalized or Skipped the report is the step the script  *)
(* takes next.                                                             *)
(***************************************************************************)
RaisedCallHalts ==
    \A j \in Jobs : \A i \in DOMAIN log[j] :
        (log[j][i].op \in {"inspect", "normalize", "encode"} /\ log[j][i].rc # 0) =>
            /\ pc = "aborted"
            /\ exit_code = 1
            /\ idx = j
            /\ i = Len(log[j])
            /\ ~summary
            /\ \A k \in Jobs :
                   k > j => state[k] = "Discovered" /\ log[k] = <<>> /\ exists(disk, files[k])

SummaryOnlyAfterLastJob ==
    summary => pc = "done" /\ \A j \in Jobs : Terminal(j)

SummaryAfterLastJob ==
    (argv = "ok" /\ pc # "start" /\ \A j \in Jobs : Terminal(j)) =>
        \/ summary /\ exit_code = 0
        \/ ~summary /\ ENABLED Report /\ ~ENABLED Relocate

C5_AbortHaltsRun ==
    /\ RaisedCallHalts
    /\ SummaryOnlyAfterLastJob
    /\ SummaryAfterLastJob

\* the first of two files is being encoded when cjxl fails
C5_Witness ==
    /\ pc = "aborted"
    /\ Len(files) = 2
    /\ idx = 1
    /\ \E i \in CallsOf(1, "encode") : log[1][i].rc # 0

(***************************************************************************)
(* C6 as stated: every Finalized job (no normalization pass) leaves        *)
(* exactly one output file, in the directory the file was discovered in,   *)
(* named name.ext.jxl, and the discovered file name.ext no longer exists.  *)
(***************************************************************************)
\* the paths job j moved a file back to
MovedBack(j) == { log[j][i].arg : i \in CallsOf(j, "move_back") }

C6_OutputNamedExtJxl ==
    \A j \in Jobs :
        (state[j] = "Finalized" /\ ~Called(j, "normalize")) =>
            /\ MovedBack(j) = { add_ext(files[j], "jxl") }
            /\ exists(disk, add_ext(files[j], "jxl"))
            /\ ~exists(disk, files[j])

(***************************************************************************)
(* C6 as amended: every Finalized job leaves its output in the directory   *)
(* the file was discovered in, named name.ext.TAG.jxl, where TAG is the    *)
(* format tag the true-format probe reported (name.ext.TAG.PNG.jxl when    *)
(* the normalization pass ran); it moves no other file back and the        *)
(* discovered file name.ext no longer exists.                              *)
(***************************************************************************)
\* the tag the probe printed for job j
ProbeTag(j) == log[j][CHOOSE i \in CallsOf(j, "probe") : TRUE].out

ExpectedOutput(j) ==
    Path(files[j].dir,
         files[j].name \o <<ProbeTag(j)>>
             \o (IF Called(j, "normalize") THEN <<"PNG">> ELSE <<>>) \o <<"jxl">>)

C6_OutputNamedTagJxl ==
    \A j \in Jobs :
        state[j] = "Finalized" =>
            /\ MovedBack(j) = { ExpectedOutput(j) }
            /\ exists(disk, ExpectedOutput(j))
            /\ ~exists(disk, files[j])

\* a.jpg of d1, probed as JPEG and not normalized, was moved back
C6_Witness ==
    \E j \in Jobs :
        /\ state[j] = "Finalized"
        /\ ~Called(j, "normalize")
        /\ files[j] = Path("d1", <<"a", "jpg">>)
        /\ exists(disk, Path("d1", <<"a", "jpg", "JPEG", "jxl">>))

(***************************************************************************)
(* C7: whenever a normalize or encode call is issued for a job, the probe  *)
(* has answered before and the working file has been renamed so that its   *)
(* last extension is the probe's format tag, whatever extension it had on  *)
(* disk; the encode that follows a normalization is given that file's PNG  *)
(* rendition.                                                              *)
(***************************************************************************)
C7_ExtensionRestoredFirst ==
    \A j \in Jobs : \A i \in DOMAIN log[j] :
        log[j][i].op \in {"normalize", "encode"} =>
            \E k \in CallsOf(j, "probe"), r \in CallsOf(j, "rename") :
                /\ k < r /\ r < i
                /\ log[j][k].rc = 0
                /\ splitext_ext(log[j][r].arg.name) = log[j][k].out
                /\ \/ log[j][i].arg = log[j][r].arg
                   \/ /\ log[j][i].op = "encode"
                      /\ \E n \in CallsOf(j, "normalize") :
                             n < i /\ log[j][n].arg = log[j][r].arg
                      /\ log[j][i].arg = add_ext(log[j][r].arg, "PNG")

\* an encode call for a file named .jpg whose true format is PNG
C7_Witness ==
    \E j \in Jobs : \E i \in CallsOf(j, "encode") :
        /\ splitext_ext(files[j].name) = "jpg"
        /\ splitext_ext(log[j][i].arg.name) = "PNG"
        /\ ~Called(j, "normalize")

(***************************************************************************)
(* C8: a job passes through FormatNormalized, whose .PNG output becomes    *)
(* the encoder's input, if and only if its restored extension is not one   *)
(* of exr, gif, jpg, jpeg, pam, pgm, ppm, pfm, pgx, png, apng, jxl         *)
(* compared without regard to case.                                        *)
(***************************************************************************)
SupportedUpper ==
    {"EXR", "GIF", "JPG", "JPEG", "PAM", "PGM", "PPM", "PFM", "PGX", "PNG", "APNG", "JXL"}

\* job j is past the format check of lines 567-570
PastFormatCheck(j) ==
    \/ (idx = j /\ pc \in {"encode", "finalize"})
    \/ Called(j, "normalize")
    \/ Called(j, "encode")

C8_NormalizedIffUnsupported ==
    \A j \in Jobs :
        PastFormatCheck(j) =>
            \E r \in CallsOf(j, "rename") :
                LET restored == log[j][r].arg IN
                /\ Called(j, "normalize") <=> Upper(splitext_ext(restored.name)) \notin SupportedUpper
                /\ (state[j] = "FormatNormalized") => Called(j, "normalize")
                /\ \A n \in CallsOf(j, "normalize") : log[j][n].arg = restored
                /\ \A e \in CallsOf(j, "encode") :
                       log[j][e].arg = IF Called(j, "normalize")
                                       THEN add_ext(restored, "PNG") ELSE restored

\* one job restored to BMP was normalized and its .PNG encoded, another restored
\* to PNG was encoded as it was
C8_Witness ==
    \E j, k \in Jobs :
        /\ Called(j, "normalize") /\ ProbeTag(j) = "BMP"
        /\ \E e \in CallsOf(j, "encode") : splitext_ext(log[j][e].arg.name) = "PNG"
        /\ Called(k, "probe") /\ ProbeTag(k) = "PNG"
        /\ ~Called(k, "normalize") /\ Called(k, "encode")

(***************************************************************************)
(* C9: until a job is Finalized or Skipped, its working path current_file  *)
(* names a file that exists on disk, whatever the tools do.                *)
(***************************************************************************)
C9_WorkingPathExists ==
    pc \in {"inspect", "restore", "format", "encode", "finalize"} => exists(disk, current_file)

(***************************************************************************)
(* C10: after a run in which no call aborts, the savings total is the sum, *)
(* over exactly the Finalized jobs, of the size measured right after       *)
(* relocation minus the size of the encoded output (Skipped jobs add       *)
(* nothing); every Finalized job's original is gone from disk and its .jxl *)
(* output is there.                                                        *)
(***************************************************************************)
\* what a size query on job j's file answered at operation op
SizeAt(j, op) == log[j][CHOOSE i \in CallsOf(j, op) : TRUE].out

RECURSIVE SumDeltas(_)
SumDeltas(n) ==
    IF n = 0 THEN 0
    ELSE SumDeltas(n - 1)
         + (IF state[n] = "Finalized" THEN SizeAt(n, "relocate") - SizeAt(n, "move_back") ELSE 0)

C10_LedgerIsSumOfDeltas ==
    pc = "done" =>
        /\ current_space_gains = SumDeltas(Len(files))
        /\ \A j \in Jobs :
               state[j] = "Finalized" =>
                   /\ ~exists(disk, files[j])
                   /\ \E i \in CallsOf(j, "move_back") :
                          /\ exists(disk, log[j][i].arg)
                          /\ log[j][i].arg.dir = files[j].dir
                          /\ splitext_ext(log[j][i].arg.name) = "jxl"

\* the 50 KB and the 500 KB JPEG were both converted, one growing, one shrinking
C10_Witness ==
    /\ pc = "done"
    /\ Len(files) = 2
    /\ \A j \in Jobs : state[j] = "Finalized"
    /\ SizeAt(1, "relocate") = 50000 /\ SizeAt(1, "move_back") = 600000
    /\ SizeAt(2, "relocate") = 500000 /\ SizeAt(2, "move_back") = 40000

(***************************************************************************)
(* Vocabulary of the properties of the two list functions.                 *)
(***************************************************************************)
\* how often path p occurs in the list s
Count(p, s) == Cardinality({ i \in DOMAIN s : s[i] = p })

\* a JPEG by its extension, ignoring case
JpegByExtension(p) == Upper(splitext_ext(p.name)) \in {"JPG", "JPEG"}

\* at most 1,000,000 bytes
SmallFile(p) == disk[p].size <= 1000000

\* 1: small JPEG, 2: large JPEG, 3: small other image, 4: large other image
Bucket(p) ==
    IF JpegByExtension(p) THEN (IF SmallFile(p) THEN 1 ELSE 2)
    ELSE (IF SmallFile(p) THEN 3 ELSE 4)

\* the files of list s that fall in bucket b, in the order of s
OfBucket(s, b) == SelectSeq(s, LAMBDA p : Bucket(p) = b)

(***************************************************************************)
(* C11: for every list handed to prioritize_list, the returned list is a   *)
(* permutation of it (every path occurs as often in the result as in the   *)
(* argument) and the partition is stable: the files of one bucket appear   *)
(* in the result in the order they have in the argument.                   *)
(***************************************************************************)
C11_PermutationAndStable ==
    pc = "returned" =>
        /\ Len(files) = Len(found)
        /\ \A p \in PathsOf(found) \cup PathsOf(files) : Count(p, files) = Count(p, found)
        /\ \A b \in 1..4 : OfBucket(files, b) = OfBucket(found, b)

\* a call that reordered a list holding two different files of one bucket
C11_Witness ==
    /\ pc = "returned"
    /\ files # found
    /\ \E i, j \in DOMAIN found :
         i < j /\ found[i] # found[j] /\ Bucket(found[i]) = Bucket(found[j])

(***************************************************************************)
(* C12: the returned list is the concatenation small JPEGs, large JPEGs,   *)
(* small other images, large other images: no file is followed by a file   *)
(* of an earlier bucket, where a file is a JPEG iff its extension is jpg   *)
(* or jpeg ignoring case and small iff its size is at most 1,000,000 bytes *)
(* (1,000,000 is small, 1,000,001 is large).                               *)
(***************************************************************************)
C12_BucketsInPriorityOrder ==
    pc = "returned" =>
        /\ \A i, j \in DOMAIN files : i < j => Bucket(files[i]) <= Bucket(files[j])
        /\ files = OfBucket(found, 1) \o OfBucket(found, 2) \o OfBucket(found, 3)
                   \o OfBucket(found, 4)

\* a JPEG of 1,000,001 bytes handed over before a mixed-case JPEG of exactly
\* 1,000,000 bytes, returned behind it
C12_Witness ==
    /\ pc = "returned"
    /\ Len(found) = 2
    /\ disk[found[1]].size = 1000001 /\ JpegByExtension(found[1])
    /\ disk[found[2]].size = 1000000 /\ splitext_ext(found[2].name) = "Jpg"
    /\ files = <<found[2], found[1]>>

(***************************************************************************)
(* C13 as stated: of a 500 KB JPEG and a 50 KB JPEG the prioritizer        *)
(* returns the 50 KB file first, in whichever order the two were found.    *)
(***************************************************************************)
C13_SmallerJpegFirst ==
    (/\ pc = "returned"
     /\ Len(found) = 2
     /\ JpegByExtension(found[1]) /\ JpegByExtension(found[2])
     /\ {disk[found[1]].size, disk[found[2]].size} = {500000, 50000})
    => disk[files[1]].size = 50000

(***************************************************************************)
(* C13 amended: a 500 KB JPEG and a 50 KB JPEG are both small JPEGs and    *)
(* are returned in the order they were found; of a JPEG of at most         *)
(* 1,000,000 bytes and a larger JPEG the prioritizer returns the one of at *)
(* most 1,000,000 bytes first, in whichever order the two were found.      *)
(***************************************************************************)
C13_DiscoveryOrderWithinBucket ==
    (/\ pc = "returned"
     /\ Len(found) = 2
     /\ JpegByExtension(found[1]) /\ JpegByExtension(found[2]))
    => /\ {disk[found[1]].size, disk[found[2]].size} = {500000, 50000} => files = found
       /\ (\E k \in 1..2 : disk[found[k]].size <= 1000000 /\ disk[found[3 - k]].size > 1000000)
              => (Len(files) = 2 /\ disk[files[1]].size <= 1000000 /\ disk[files[2]].size > 1000000)

\* the 500 KB JPEG was found first and is returned first
C13_Witness ==
    /\ pc = "returned"
    /\ Len(found) = 2
    /\ JpegByExtension(found[1]) /\ JpegByExtension(found[2])
    /\ disk[found[1]].size = 500000
    /\ disk[found[2]].size = 50000
    /\ files = found

\* a is a subsequence of b: a is b with some of its entries left out
RECURSIVE IsSubsequence(_, _)
IsSubsequence(a, b) ==
    IF a = <<>> THEN TRUE
    ELSE IF b = <<>> THEN FALSE
    ELSE IF Head(a) = Head(b) THEN IsSubsequence(Tail(a), Tail(b))
    ELSE IsSubsequence(a, Tail(b))

\* the extension of p equals an entry of the allow-list, ignoring case
ListedIgnoringCase(p, allow) ==
    \E k \in DOMAIN allow : Upper(splitext_ext(p.name)) = Upper(allow[k])

(***************************************************************************)
(* C14: for every file list and every allow-list the list returned by      *)
(* find_specific_types is an order-preserving subsequence of the file      *)
(* list, no path occurs in it more often than in the file list (also when  *)
(* the allow-list holds several spellings of its extension, such as jpg    *)
(* and JPG), and the extension of every returned path equals an entry of   *)
(* the allow-list ignoring case.                                           *)
(***************************************************************************)
C14_SubsequenceAtMostOnce ==
    pc = "returned" =>
        /\ IsSubsequence(files, found)
        /\ \A p \in PathsOf(files) : Count(p, files) <= Count(p, found)
        /\ \A p \in PathsOf(files) : ListedIgnoringCase(p, exts)

(***************************************************************************)
(* C15: find_specific_types matches independent of case: every path of the *)
(* file list whose extension equals an entry of the allow-list when both   *)
(* are compared ignoring case (.Jpg against jpg, .jp2 against JP2) is in   *)
(* the returned list.                                                      *)
(***************************************************************************)
C15_MatchIgnoresCase ==
    pc = "returned" =>
        \A p \in PathsOf(found) : ListedIgnoringCase(p, exts) => p \in PathsOf(files)

(***************************************************************************)
(* C16: processing is strictly sequential.  At every point of a run at     *)
(* most one job is under way (relocated and not yet Finalized or Skipped), *)
(* and a file is relocated to the working directory only when the job of   *)
(* every earlier file of the list is Finalized or Skipped.                 *)
(***************************************************************************)
UnderWay(j) == state[j] \notin {"Discovered", "Finalized", "Skipped"}

C16_OneJobAtATime ==
    /\ Cardinality({ j \in Jobs : UnderWay(j) }) <= 1
    /\ \A j \in Jobs :
         (Called(j, "relocate") \/ state[j] # "Discovered")
             => \A k \in Jobs : k < j => Terminal(k)

\* the second file is under way and the job of the first is Finalized
C16_Witness ==
    /\ Len(files) = 2
    /\ state[1] = "Finalized"
    /\ UnderWay(2)
    /\ Called(2, "relocate")

(***************************************************************************)
(* A second run of the script over the same root, after the first run has  *)
(* ended.  The new process starts with fresh variables; what it finds is   *)
(* the disk the first run left.                                            *)
(***************************************************************************)
\* the files under the root: the working directory lies outside of it
UnderRoot(d) == { p \in DOMAIN d : p.dir # temporary_path }

\* find_files: the files under the root in the order os.walk yields them
Walks(d) ==
    { w \in [1..Cardinality(UnderRoot(d)) -> UnderRoot(d)] :
        \A i, j \in DOMAIN w : i # j => w[i] # w[j] }

Restart ==
    /\ pc \in {"done", "aborted"}
    /\ argv = "ok"
    /\ previous = NoRun
    /\ found' \in Walks(disk)
    /\ previous' = [finalized  |-> UNION { MovedBack(j) : j \in { k \in Jobs : state[k] = "Finalized" } },
                    unfinished |-> { files[j] : j \in { k \in Jobs : state[k] # "Finalized" } }]
    /\ pc' = "start"
    /\ files' = <<>>
    /\ idx' = 1
    /\ current_file' = NoPath
    /\ original_path' = ""
    /\ old_size' = 0
    /\ new_size' = 0
    /\ current_space_gains' = 0
    /\ current_progress' = 1
    /\ exit_code' = "running"
    /\ summary' = FALSE
    /\ state' = <<>>
    /\ log' = <<>>
    /\ UNCHANGED <<argv, exts, disk>>

RestartNext == Next \/ Restart

RestartSpec == Init /\ [][RestartNext]_vars

(***************************************************************************)
(* C17: a second run over the same root is idempotent for finalized files. *)
(* No file the first run moved back for a Finalized job has an extension   *)
(* of the allow-list (it is jxl), so no job of the second run is about it, *)
(* while every file of the first run's work list whose job did not reach   *)
(* Finalized and that is still under the root is a job of the second run,  *)
(* processed from the start: its first call is its relocation.             *)
(***************************************************************************)
SecondRun == previous # NoRun /\ pc # "start"

C17_SecondRunSkipsFinalized ==
    SecondRun =>
        /\ \A p \in previous.finalized :
             /\ splitext_ext(p.name) = "jxl"
             /\ find_specific_types(<<p>>, exts) = <<>>
             /\ \A j \in Jobs : files[j] # p /\ \A i \in DOMAIN log[j] : log[j][i].arg # p
        /\ \A p \in previous.unfinished :
             p \in PathsOf(found) =>
                 \E j \in Jobs :
                     /\ files[j] = p
                     /\ state[j] = "Discovered" <=> log[j] = <<>>
                     /\ log[j] # <<>> => (log[j][1].op = "relocate" /\ log[j][1].arg = p)

\* the second run ended, and the output the first run moved back, which os.walk
\* found again, is still where it was
C17_Witness ==
    /\ SecondRun
    /\ pc = "done"
    /\ \E p \in previous.finalized : p \in PathsOf(found) /\ exists(disk, p)

(***************************************************************************)
(* C18: the script fails fast.  When the root argument is missing or names *)
(* a path that does not exist, the process ends with exit code 1 in its    *)
(* first step: no work list is built, no job exists, no call is issued and *)
(* the disk is as it was.  A run that completed all its jobs ends with     *)
(* exit code 0, and a run that ends otherwise ends with exit code 1.       *)
(***************************************************************************)
C18_FailFast ==
    /\ (argv # "ok" /\ pc # "start") =>
           /\ pc = "aborted"
           /\ exit_code = 1
           /\ files = <<>>
           /\ Jobs = {}
           /\ summary = FALSE
           /\ disk = [p \in PathsOf(found) |-> File(CandidateSize(p), p, p, <<>>)]
    /\ pc \notin {"done", "aborted"} => exit_code = "running"
    /\ pc = "done" =>
           /\ exit_code = 0
           /\ argv = "ok"
           /\ \A j \in Jobs : Terminal(j)
    /\ pc = "aborted" => (exit_code = 1 /\ (argv = "ok" => \E j \in Jobs : ~Terminal(j)))

\* the process ended with exit code 1 for a root that does not exist
C18_Witness ==
    /\ argv = "badpath"
    /\ pc = "aborted"
    /\ exit_code = 1

(***************************************************************************)
(* C19: within the Encoded step, when the encoded output exists, the       *)
(* follow-ups are issued in the order copy the metadata from the           *)
(* pre-encode working file to the output, stamp the Title of the output    *)
(* with the output's base name, delete the pre-encode working file, each   *)
(* one after the one before it has returned.  The pre-encode file exists   *)
(* when the metadata is read from it, and when the step is over the output *)
(* carries the copied metadata and the stamped Title.                      *)
(***************************************************************************)
FollowUpOps == <<"transfer_metadata", "add_exif_title", "delete_file">>

C19_CopyStampDelete ==
    /\ \A j \in Jobs : \A e \in CallsOf(j, "encode") :
         LET input  == log[j][e].arg
             output == add_ext(input, "jxl")
             args   == <<input, output, input>>
         IN /\ \A i \in DOMAIN log[j] :
                  (\E n \in 1..3 : log[j][i].op = FollowUpOps[n]) =>
                      /\ i \in e + 1 .. e + 3
                      /\ log[j][i].op = FollowUpOps[i - e]
                      /\ log[j][i].arg = args[i - e]
                      /\ \A k \in e .. i - 1 : log[j][k].rc = 0
            /\ Called(j, "transfer_metadata") =>
                  /\ log[j][e].out = "written"
                  /\ state[j] \in {"Encoded", "Finalized"} =>
                         (Called(j, "add_exif_title") /\ Called(j, "delete_file"))
    /\ (pc = "finalize" /\ Called(idx, "delete_file")) =>
           /\ exists(disk, current_file)
           /\ disk[current_file].title = current_file.name
           /\ disk[current_file].meta # NoPath
           /\ disk[current_file].meta = disk[current_file].origin

\* an Encoded job issued the three follow-ups, the last of which removed the
\* pre-encode file; the output carries the copied metadata and its own name as Title
C19_Witness ==
    /\ pc = "finalize"
    /\ Called(idx, "transfer_metadata")
    /\ Called(idx, "add_exif_title")
    /\ \E i \in CallsOf(idx, "delete_file") :
         log[idx][i].rc = 0 /\ ~exists(disk, log[idx][i].arg)
    /\ disk[current_file].title = current_file.name
    /\ disk[current_file].meta = files[idx]

(***************************************************************************)
(* C20: no image is lost.  In every reachable state, the state an abort    *)
(* leaves included, every file of the work list that was relocated still   *)
(* has a file on disk that derives from it: the relocated original, a      *)
(* renamed or normalized intermediate, or the encoded output.              *)
(***************************************************************************)
DerivedFrom(p) == { q \in DOMAIN disk : disk[q].origin = p }

C20_NoImageLost ==
    \A j \in Jobs : state[j] # "Discovered" => DerivedFrom(files[j]) # {}

(***************************************************************************)
(* C21: relocation never collides.  Whenever a file is moved into the      *)
(* working directory, no file already occupies its working path (the       *)
(* working directory joined with its base name), and whenever an encoded   *)
(* file is moved back, no file already occupies its destination path in    *)
(* the original directory.                                                 *)
(***************************************************************************)
\* the step moves files[idx] onto a working path that is occupied
RelocationCollides ==
    /\ pc = "relocate"
    /\ pc' = "inspect"
    /\ exists(disk, join_basename(temporary_path, files[idx]))

\* the step moves current_file back onto a path that is occupied
MoveBackCollides ==
    /\ pc = "finalize"
    /\ pc' = "relocate"
    /\ exists(disk, join_basename(original_path, current_file))

C21_RelocationNeverCollides == [][~RelocationCollides /\ ~MoveBackCollides]_vars
====
